---- MODULE Spec2Model ----
(***************************************************************************)
(* Model of scripts/vr_pack_for_claude.py: main() and the functions it     *)
(* calls (run_backstop, collect_diffs, read_backstop_full_json,            *)
(* build_packet_md).  One action per straight-line step of main, one per   *)
(* iteration of the two loops of collect_diffs.                            *)
(*                                                                         *)
(* Encoding of Python/JSON values:                                         *)
(*   None        Python None: a key that is absent or JSON null, as seen   *)
(*               through dict.get(key)                                     *)
(*   file        <<>> when the file does not exist, <<content>> otherwise  *)
(*   file name   the stem of a report file as a sequence of digits:        *)
(*               <<1, 0>> is json_report/10.json                           *)
(*   text        a str as the sequence of its Unicode code points:         *)
(*               <<120, 10>> is "x\n"                                      *)
(***************************************************************************)
EXTENDS Integers, Sequences, FiniteSets

\* ------------------------------------------------------------------ bounds
MaxFiles == 2    \* report files in the report directory
MaxTests == 3    \* test entries in a report directory of several files
MaxEntries == 2  \* test entries of a single report, of every kind
MaxDeep  == 7    \* test entries of the single-file, single-label directories

\* --------------------------------------------------------------- constants
SampleLimit == 5

None == "None"

\* The exit statuses the shell can hand back for `backstop test`:
\* 0 no difference, 1 differences found, 2 stands for every other status.
ExitCodes == {0, 1, 2}

\* ------------------------------------------------------- Python primitives
\* Truthiness of an optional string, as used by `x or default` and `if x`.
Falsy(v) == v = None \/ v = ""

OrDefault(v, d) == IF Falsy(v) THEN d ELSE v

\* The code points str.strip() removes, those of str.isspace():
\* \t \n \x0b \x0c \r, \x1c to \x1f, space, \x85, \xa0, U+1680,
\* U+2000 to U+200A, U+2028, U+2029, U+202F, U+205F and U+3000.
Whitespace ==
    (9..13) \cup (28..32) \cup {133, 160, 5760} \cup (8192..8202)
    \cup {8232, 8233, 8239, 8287, 12288}

\* Text-mode reading with universal newlines: "\r\n" and a lone "\r" are
\* read as "\n".
RECURSIVE UniversalNewlines(_)
UniversalNewlines(t) ==
    IF t = <<>> THEN <<>>
    ELSE IF t[1] = 13
         THEN <<10>> \o UniversalNewlines(IF Len(t) > 1 /\ t[2] = 10
                                          THEN SubSeq(t, 3, Len(t))
                                          ELSE Tail(t))
    ELSE <<t[1]>> \o UniversalNewlines(Tail(t))

\* str.strip(): the text without its leading and trailing whitespace.

RECURSIVE lstrip(_)
lstrip(t) ==
    IF t # <<>> /\ t[1] \in Whitespace THEN lstrip(Tail(t)) ELSE t

RECURSIVE rstrip(_)
rstrip(t) ==
    IF t # <<>> /\ t[Len(t)] \in Whitespace
    THEN rstrip(SubSeq(t, 1, Len(t) - 1)) ELSE t

strip(t) == rstrip(lstrip(t))

\* str.__lt__ on two report paths of the same directory.  The stems are
\* digit strings followed by ".json"; "." sorts before every digit, so a
\* stem that is a proper prefix of another one comes first.
RECURSIVE LexLess(_, _)
LexLess(a, b) ==
    IF a = <<>> THEN b # <<>>
    ELSE IF b = <<>> THEN FALSE
    ELSE IF a[1] # b[1] THEN a[1] < b[1]
    ELSE LexLess(Tail(a), Tail(b))

\* list.insert into an already sorted list, keeping it sorted.
RECURSIVE InsertSorted(_, _)
InsertSorted(x, s) ==
    IF s = <<>> THEN <<x>>
    ELSE IF LexLess(x, s[1]) THEN <<x>> \o s
    ELSE <<s[1]>> \o InsertSorted(x, Tail(s))

sorted_asListed(s) == s

\* sorted(): the paths in ascending string order, whatever order glob gave.
RECURSIVE sorted(_)
sorted(s) ==
    IF s = <<>> THEN <<>> ELSE InsertSorted(s[1], sorted(Tail(s)))

\* ------------------------------------------------------------ report files
\* The "diff" of a pair: kind is "falsy" for an absent key, null and every
\* other falsy value, "object" for a non-empty JSON object, "other" for a
\* truthy value that is not an object (a string, a number, true).
NoDiff == [kind |-> "falsy", misMatchPercentage |-> None]

EmptyPair ==
    [label |-> None, url |-> None, fileName |-> None, diff |-> NoDiff,
     selectors |-> None]

HomePair ==
    [label |-> "home", url |-> "http://site/", fileName |-> "a.png",
     diff |-> [kind |-> "object", misMatchPercentage |-> "1.25"],
     selectors |-> "document"]

\* Test entries: isObject is FALSE for an entry that is not a JSON object;
\* status is "pass", "fail" or None; pairKey tells whether the "pair" key is
\* absent, JSON null, a JSON object (then pair holds it) or another value.
Entry(st, key, pr) ==
    [isObject |-> TRUE, status |-> st, pairKey |-> key, pair |-> pr]

T_pass == Entry("pass", "null", EmptyPair)
T_noStatus == Entry(None, "object", HomePair)
T_failHome == Entry("fail", "object", HomePair)
T_failNoLabel ==
    Entry("fail", "object",
          [EmptyPair EXCEPT !.label = "", !.fileName = "b.png",
                            !.diff = [kind |-> "object",
                                      misMatchPercentage |-> None]])
T_failPricingNoFile ==
    Entry("fail", "object",
          [EmptyPair EXCEPT !.label = "pricing", !.url = "http://site/p",
                            !.fileName = ""])
T_failNoPair == Entry("fail", "absent", EmptyPair)
T_failNullPair == Entry("fail", "null", EmptyPair)
T_failOtherPair == Entry("fail", "other", EmptyPair)
T_failOtherDiff ==
    Entry("fail", "object",
          [HomePair EXCEPT !.diff = [kind |-> "other",
                                     misMatchPercentage |-> None]])
T_notObject ==
    [isObject |-> FALSE, status |-> None, pairKey |-> "absent",
     pair |-> EmptyPair]

TestSamples ==
    {T_pass, T_noStatus, T_failHome, T_failNoLabel, T_failPricingNoFile,
     T_failNoPair, T_failNullPair, T_failOtherPair, T_failOtherDiff,
     T_notObject}

\* The entries used in directories of several files.
FileSamples == {T_pass, T_failHome, T_failNoPair}

SeqsUpTo(X, lo, hi) == UNION {[1..n -> X] : n \in lo..hi}

\* Report file names: 10.json, 2.json, 1.json, 20.json.
AllNames == <<<<1, 0>>, <<2>>, <<1>>, <<2, 0>>>>

\* A report file: readable is FALSE when open() or json.load() raises;
\* isObject is FALSE when the JSON value loaded is not an object; testsKey
\* tells whether "tests" is absent, null (or another falsy value), a list
\* (then tests) or a number.
BadFile ==
    [readable |-> FALSE, isObject |-> FALSE, testsKey |-> "absent",
     tests |-> <<>>]
NotObjectFile ==
    [readable |-> TRUE, isObject |-> FALSE, testsKey |-> "absent",
     tests |-> <<>>]
ReportFile(key, ts) ==
    [readable |-> TRUE, isObject |-> TRUE, testsKey |-> key, tests |-> ts]

\* The ways to cut a sequence of n entries into k consecutive parts:
\* part r runs from c[r - 1] + 1 to c[r].
Cuts(k, n) ==
    {c \in [0..k -> 0..n] :
        c[0] = 0 /\ c[k] = n /\ \A r \in 1..k : c[r - 1] <= c[r]}

\* The directory whose files are those of AllNames at the positions I, the
\* r-th of them holding part r of s; a file of `bad` cannot be read.
DirOf(I, s, c, bad) ==
    [f \in {AllNames[i] : i \in I} |->
        LET i == CHOOSE j \in I : AllNames[j] = f
            r == Cardinality({j \in I : j <= i})
        IN IF i \in bad THEN BadFile
           ELSE ReportFile("list", SubSeq(s, c[r - 1] + 1, c[r]))]

EmptyParts(I, c) ==
    {i \in I : LET r == Cardinality({j \in I : j <= i}) IN c[r - 1] = c[r]}

\* Directories of the first 1 to MaxFiles names of AllNames holding up to
\* MaxTests entries in all; a file that holds no entry is unreadable or has
\* an empty list.
BroadDirs ==
    UNION {
      UNION {
        UNION {
          { DirOf(I, s, c, bad) : bad \in SUBSET EmptyParts(I, c) }
          : c \in Cuts(Cardinality(I), Len(s)) }
        : s \in SeqsUpTo(FileSamples, 0, MaxTests) }
      : I \in {1..k : k \in 1..MaxFiles} }

\* One report of up to MaxEntries entries of any kind.
EntryDirs ==
    { [f \in {AllNames[1]} |-> ReportFile("list", s)] :
        s \in SeqsUpTo(TestSamples, 0, MaxEntries) }

\* One report whose "tests" key is absent, null or a number.
NoTestsDirs ==
    { [f \in {AllNames[1]} |-> ReportFile(k, <<>>)] :
        k \in {"absent", "null", "number"} }

\* A report that is valid JSON but not an object, alone or after a report
\* of one entry.
NotObjectDirs ==
    { [f \in {AllNames[1]} |-> NotObjectFile] }
    \cup { [f \in {AllNames[1], AllNames[2]} |->
               IF f = AllNames[1] THEN ReportFile("list", <<t>>)
               ELSE NotObjectFile] : t \in FileSamples }

DeepNames ==
    <<"d1.png", "d2.png", "d3.png", "d4.png", "d5.png", "d6.png", "d7.png",
      "d8.png", "d9.png", "d10.png", "d11.png", "d12.png">>

\* One report of MaxTests + 1 to MaxDeep failures of the same page, each
\* with a file name of its own or with an empty one.
DeepDirs ==
    UNION {
      { [f \in {AllNames[1]} |->
           ReportFile("list",
              [i \in 1..n |->
                 [T_failHome EXCEPT
                    !.pair.fileName = IF i \in N THEN DeepNames[i] ELSE ""]])] :
        N \in SUBSET (1..n) }
      : n \in (MaxTests + 1)..MaxDeep }

\* The report directory does not exist, or exists with no JSON file.
NoDir == [exists |-> FALSE, content |-> <<>>]
EmptyDir == [exists |-> TRUE, content |-> <<>>]

ReportDirs ==
    {NoDir, EmptyDir} \cup
    {[exists |-> TRUE, content |-> d] :
        d \in BroadDirs \cup EntryDirs \cup NoTestsDirs \cup NotObjectDirs
                \cup DeepDirs}

\* -------------------------------------------------------------- out/ files
StaleSummary ==
    [pages |-> <<[page |-> "old", count |-> 1, samples |-> <<"old.png">>]>>,
     totalFailed |-> 1]
StalePacket ==
    [task |-> <<111, 108, 100>>, diff |-> StaleSummary, full |-> <<>>,
     hasFull |-> FALSE]

\* The task file: missing, a directory, a file that is not UTF-8, or a text.
TaskFile(kind, text) == [kind |-> kind, text |-> text]

\* "Title: x", and the same with "\r" for the inner space and with
\* "\x0c\r\n " before and "\t\x0b\xa0\u3000" after it.
TaskTexts ==
    {<<84, 105, 116, 108, 101, 58, 32, 120>>,
     <<12, 13, 10, 32, 84, 105, 116, 108, 101, 58, 13, 120, 9, 11, 160,
       12288>>}

TaskFiles ==
    {TaskFile("missing", <<>>), TaskFile("directory", <<>>),
     TaskFile("notUtf8", <<>>)}
    \cup {TaskFile("text", t) : t \in TaskTexts}

\* ------------------------------------------------------------------- state
VARIABLES
    pc,            \* position in main / collect_diffs
    taskFile,      \* what the path args.task names
    outDir,        \* the path out: "absent", a "dir" or a "file"
    summaryFile,   \* out/diff-summary.json
    packetFile,    \* out/ai-packet.md
    reportDir,     \* backstop/backstop_data/json_report
    backstopCodes, \* exit statuses returned by the `backstop test` runs
    task_info,     \* main: task_info (a file: <<>> until assigned)
    files,         \* collect_diffs: files
    fi,            \* collect_diffs: position of fpath in files
    failed_items,  \* collect_diffs: failed_items
    by_page,       \* collect_diffs: by_page, in insertion order
    ii,            \* collect_diffs: position of it in failed_items
    diff_summary,  \* main: diff_summary (<<>> until collect_diffs returns)
    stderr,        \* messages printed to sys.stderr
    exitCode       \* <<>> while running, <<status>> once the process ended

vars == <<pc, taskFile, outDir, summaryFile, packetFile, reportDir,
          backstopCodes, task_info, files, fi, failed_items, by_page, ii,
          diff_summary, stderr, exitCode>>

fsVars == <<taskFile, outDir, summaryFile, packetFile, reportDir>>
collectVars == <<files, fi, failed_items, by_page, ii>>

Init ==
    /\ pc = "mkdir"
    /\ taskFile \in TaskFiles
    /\ \/ outDir \in {"absent", "file"} /\ summaryFile = <<>>
                                        /\ packetFile = <<>>
       \/ outDir = "dir" /\ summaryFile = <<StaleSummary>>
                         /\ packetFile = <<StalePacket>>
    /\ reportDir = NoDir
    /\ backstopCodes = <<>>
    /\ task_info = <<>>
    /\ files = <<>>
    /\ fi = 0
    /\ failed_items = <<>>
    /\ by_page = <<>>
    /\ ii = 0
    /\ diff_summary = <<>>
    /\ stderr = <<>>
    /\ exitCode = <<>>

\* ------------------------------------------------------------------- main
\* An exception nothing catches: the interpreter prints the traceback and
\* the process ends with status 1.
Uncaught(exception) ==
    /\ stderr' = Append(stderr, exception)
    /\ exitCode' = <<1>>
    /\ pc' = "exit"

\* out_dir.mkdir(exist_ok=True): creates out/ or finds it a directory.
EnsureOutDir ==
    /\ pc = "mkdir"
    /\ outDir # "file"
    /\ outDir' = "dir"
    /\ pc' = "validate"
    /\ UNCHANGED <<taskFile, summaryFile, packetFile, reportDir,
                   backstopCodes, task_info, collectVars,
                   diff_summary, stderr, exitCode>>

\* out_dir.mkdir(exist_ok=True) where out exists and is not a directory.
EnsureOutDirRaises ==
    /\ pc = "mkdir"
    /\ outDir = "file"
    /\ Uncaught("FileExistsError")
    /\ UNCHANGED <<fsVars, backstopCodes, task_info, collectVars,
                   diff_summary>>

\* not os.path.exists(task_path)
TaskFileMissing == taskFile.kind = "missing"

\* if not os.path.exists(task_path): print(...); sys.exit(2)
TaskNotFound ==
    /\ pc = "validate"
    /\ TaskFileMissing
    /\ stderr' = Append(stderr, "Task file not found")
    /\ exitCode' = <<2>>
    /\ pc' = "exit"
    /\ UNCHANGED <<fsVars, backstopCodes, task_info, collectVars,
                   diff_summary>>

\* pathlib.Path.read_text on a file that can be decoded.
read_text(content) == UniversalNewlines(content)

\* The exception read_text raises on the task path, "" when it raises none.
ReadTextError(file) ==
    IF file.kind = "directory" THEN "IsADirectoryError"
    ELSE IF file.kind = "notUtf8" THEN "UnicodeDecodeError"
    ELSE ""

\* task_info = parse_task_markdown(task_path); only task_info["raw"], the
\* text of the file, is used afterwards.
ParseTask ==
    /\ pc = "validate"
    /\ ~TaskFileMissing
    /\ ReadTextError(taskFile) = ""
    /\ task_info' = <<[raw |-> read_text(taskFile.text)]>>
    /\ pc' = "backstop"
    /\ UNCHANGED <<fsVars, backstopCodes, collectVars,
                   diff_summary, stderr, exitCode>>

\* parse_task_markdown: read_text raises on a directory or on bytes that
\* are not UTF-8.
ParseTaskRaises ==
    /\ pc = "validate"
    /\ ~TaskFileMissing
    /\ ReadTextError(taskFile) # ""
    /\ Uncaught(ReadTextError(taskFile))
    /\ UNCHANGED <<fsVars, backstopCodes, task_info, collectVars,
                   diff_summary>>

\* run_backstop: the shell command runs to its end, returns any status and
\* leaves any report directory behind; a status other than 0 and 1 is
\* reported on stderr, none is raised or returned.
RunBackstop ==
    /\ pc = "backstop"
    /\ \E code \in ExitCodes, d \in ReportDirs :
          /\ backstopCodes' = Append(backstopCodes, code)
          /\ reportDir' = d
          /\ stderr' = IF code \notin {0, 1}
                       THEN Append(stderr, "Backstop returned unexpected exit code")
                       ELSE stderr
    /\ pc' = "glob"
    /\ UNCHANGED <<taskFile, outDir, summaryFile, packetFile, task_info,
                   collectVars, diff_summary, exitCode>>

\* ---------------------------------------------------------- collect_diffs
\* The orders in which glob.glob may list the JSON files of the directory;
\* a directory that does not exist lists nothing.
GlobOrders(dir) ==
    LET S == DOMAIN dir.content IN
    {s \in [1..Cardinality(S) -> S] :
        \A i, j \in 1..Cardinality(S) : i # j => s[i] # s[j]}

EmptySummary == [pages |-> <<>>, totalFailed |-> 0]

\* files = sorted(glob.glob(...)); if not files: return {"pages": [], ...}
\* The early return writes no file.
GlobEmpty ==
    /\ pc = "glob"
    /\ \E order \in GlobOrders(reportDir) :
          /\ sorted(order) = <<>>
          /\ files' = sorted(order)
    /\ diff_summary' = <<EmptySummary>>
    /\ pc' = "main_write"
    /\ UNCHANGED <<fsVars, backstopCodes, task_info, fi,
                   failed_items, by_page, ii, stderr, exitCode>>

\* Where collect_diffs goes when the next file to visit is at position i of
\* n: into the loop body again, or on to the loop over failed_items.
LoopOrDone(i, n) == IF i <= n THEN "read" ELSE "aggregate"

\* files is not empty: failed_items = [] and the loop over files starts;
\* by_page = {} once it has ended.
GlobFiles ==
    /\ pc = "glob"
    /\ \E order \in GlobOrders(reportDir) :
          /\ sorted(order) # <<>>
          /\ files' = sorted(order)
    /\ failed_items' = <<>>
    /\ fi' = 1
    /\ pc' = "read"
    /\ UNCHANGED <<fsVars, backstopCodes, task_info, by_page, ii,
                   diff_summary, stderr, exitCode>>

\* test.get("status") == "fail"
IsFailing(test) == test.status = "fail"

\* data.get("tests", []) or []
TestsOf(data) == IF data.testsKey = "list" THEN data.tests ELSE <<>>

\* pair = test.get("pair", {}): the default only replaces an absent key;
\* a JSON null comes back as None, any other value as itself, and calling
\* .get on them raises AttributeError.
PairRaises(test) == test.pairKey \in {"null", "other"}

PairOf(test) == IF test.pairKey = "object" THEN test.pair ELSE EmptyPair

\* (pair.get("diff") or {}).get(...): a truthy diff that is not an object
\* has no .get.
DiffRaises(pair) == pair.diff.kind = "other"

\* The dict appended to failed_items for one failing test entry.
FailedItem(pair) ==
    [label |-> OrDefault(pair.label, "unknown"),
     url |-> OrDefault(pair.url, ""),
     fileName |-> pair.fileName,
     mismatch |-> IF pair.diff.kind = "object"
                  THEN pair.diff.misMatchPercentage ELSE None,
     selectors |-> pair.selectors]

\* The failed items of the test entries of one report, in their order.
FailedOf(tests) ==
    LET failing == SelectSeq(tests, IsFailing)
    IN [i \in 1..Len(failing) |-> FailedItem(PairOf(failing[i]))]

\* One pass of the loop body over a test entry raises: test.get on an entry
\* that is not an object, pair.get or the diff of a failing entry.
EntryRaises(test) ==
    \/ ~test.isObject
    \/ /\ IsFailing(test)
       /\ PairRaises(test) \/ DiffRaises(PairOf(test))

\* The exception the lines after the try block raise on a loaded report, ""
\* when they raise none: data.get on a value that is not an object, the
\* loop over a number, an entry the loop body raises on.
ReportError(data) ==
    IF ~data.isObject THEN "AttributeError"
    ELSE IF data.testsKey = "number" THEN "TypeError"
    ELSE IF \E i \in 1..Len(TestsOf(data)) : EntryRaises(TestsOf(data)[i])
         THEN "AttributeError"
    ELSE ""

ContinueAt_break(i, n) == n + 1

\* The index of the file visited after a file that could not be read, out
\* of n files: `continue` goes on with the next one.
ContinueAt(i, n) == i + 1

\* except Exception: print(...); continue
ReadReportFails ==
    /\ pc = "read"
    /\ ~reportDir.content[files[fi]].readable
    /\ stderr' = Append(stderr, "Failed to read report")
    /\ fi' = ContinueAt(fi, Len(files))
    /\ pc' = LoopOrDone(fi', Len(files))
    /\ ii' = IF pc' = "aggregate" THEN 1 ELSE ii
    /\ UNCHANGED <<fsVars, backstopCodes, task_info, files,
                   failed_items, by_page, diff_summary, exitCode>>

\* The report is loaded and every failing entry of it is appended.
ReadReport ==
    /\ pc = "read"
    /\ reportDir.content[files[fi]].readable
    /\ ReportError(reportDir.content[files[fi]]) = ""
    /\ failed_items' =
          failed_items \o FailedOf(TestsOf(reportDir.content[files[fi]]))
    /\ fi' = fi + 1
    /\ pc' = LoopOrDone(fi', Len(files))
    /\ ii' = IF pc' = "aggregate" THEN 1 ELSE ii
    /\ UNCHANGED <<fsVars, backstopCodes, task_info, files,
                   by_page, diff_summary, stderr, exitCode>>

\* The report is loaded and a line after the try block raises: nothing
\* catches it, collect_diffs and main are left.
ReadReportRaises ==
    /\ pc = "read"
    /\ reportDir.content[files[fi]].readable
    /\ ReportError(reportDir.content[files[fi]]) # ""
    /\ Uncaught(ReportError(reportDir.content[files[fi]]))
    /\ UNCHANGED <<fsVars, backstopCodes, task_info, collectVars,
                   diff_summary>>

\* The position in by_page of the summary of page p, 0 when there is none.
PageIndex(bp, p) ==
    IF \E i \in 1..Len(bp) : bp[i].page = p
    THEN CHOOSE i \in 1..Len(bp) : bp[i].page = p
    ELSE 0

\* by_page.setdefault(p, {"page": p, "count": 0, "samples": []})
SetDefault(bp, p) ==
    IF PageIndex(bp, p) # 0 THEN bp
    ELSE Append(bp, [page |-> p, count |-> 0, samples |-> <<>>])

\* The count follows the samples: an item that adds no sample is not counted.
AddItem_countSampled(bp, it) ==
    LET p == it.label
        bp1 == SetDefault(bp, p)
        k == PageIndex(bp1, p)
    IN IF Len(bp1[k].samples) < SampleLimit /\ ~Falsy(it.fileName)
       THEN [bp1 EXCEPT ![k].count = @ + 1,
                        ![k].samples = Append(@, it.fileName)]
       ELSE bp1

\* The file name is appended without looking at it.
AddItem_anyName(bp, it) ==
    LET p == it.label
        bp1 == SetDefault(bp, p)
        k == PageIndex(bp1, p)
        counted == [bp1 EXCEPT ![k].count = @ + 1]
    IN IF Len(counted[k].samples) < SampleLimit
       THEN [counted EXCEPT ![k].samples = Append(@, it.fileName)]
       ELSE counted

\* One iteration of `for it in failed_items`.
AddItem(bp, it) ==
    LET p == it.label
        bp1 == SetDefault(bp, p)
        k == PageIndex(bp1, p)
        counted == [bp1 EXCEPT ![k].count = @ + 1]
    IN IF Len(counted[k].samples) < SampleLimit /\ ~Falsy(it.fileName)
       THEN [counted EXCEPT ![k].samples = Append(@, it.fileName)]
       ELSE counted

AggregateItem ==
    /\ pc = "aggregate"
    /\ ii <= Len(failed_items)
    /\ by_page' = AddItem(by_page, failed_items[ii])
    /\ ii' = ii + 1
    /\ UNCHANGED <<pc, fsVars, backstopCodes, task_info, files,
                   fi, failed_items, diff_summary, stderr, exitCode>>

Summary_countsPages(bp, items) == [pages |-> bp, totalFailed |-> Len(bp)]

\* summary = {"pages": list(by_page.values()), "totalFailed": len(...)}
Summary(bp, items) == [pages |-> bp, totalFailed |-> Len(items)]

\* The summary is written to out/diff-summary.json and returned.
WriteSummary ==
    /\ pc = "aggregate"
    /\ ii > Len(failed_items)
    /\ summaryFile' = <<Summary(by_page, failed_items)>>
    /\ diff_summary' = <<Summary(by_page, failed_items)>>
    /\ pc' = "main_write"
    /\ UNCHANGED <<taskFile, outDir, packetFile, reportDir, backstopCodes,
                   task_info, collectVars, stderr, exitCode>>

\* ------------------------------------------------------- main, after step 3
\* with open("out/diff-summary.json", "w") as f: json.dump(diff_summary, ...)
MainWriteSummary ==
    /\ pc = "main_write"
    /\ summaryFile' = diff_summary
    /\ pc' = "packet"
    /\ UNCHANGED <<taskFile, outDir, packetFile, reportDir, backstopCodes,
                   task_info, collectVars, diff_summary, stderr,
                   exitCode>>

\* read_backstop_full_json: one entry per JSON file in sorted order, holding
\* the loaded report or, for a file that cannot be read, the error.
ReadFullJson(dir) ==
    LET names == sorted(CHOOSE s \in GlobOrders(dir) : TRUE)
    IN [i \in 1..Len(names) |->
          [file |-> names[i], content |-> dir.content[names[i]]]]

\* build_packet_md: the packet embeds the stripped task text, the diff
\* summary and, when asked for, the merged reports (the merged object is
\* never falsy).
BuildPacket(info, summary, include_full_json, full_json_obj) ==
    [task |-> strip(info.raw),
     diff |-> summary,
     hasFull |-> include_full_json,
     full |-> IF include_full_json THEN full_json_obj ELSE <<>>]

\* Steps 4 and 5 of main and the optional `npx backstop openReport`, whose
\* status is ignored; main returns and the process ends with status 0.
WritePacket ==
    /\ pc = "packet"
    /\ \E include_full_json \in BOOLEAN, open_report \in BOOLEAN :
          packetFile' =
             <<BuildPacket(task_info[1], diff_summary[1], include_full_json,
                           IF include_full_json THEN ReadFullJson(reportDir)
                           ELSE <<>>)>>
    /\ exitCode' = <<0>>
    /\ pc' = "exit"
    /\ UNCHANGED <<taskFile, outDir, summaryFile, reportDir, backstopCodes,
                   task_info, collectVars, diff_summary, stderr>>

Next ==
    \/ EnsureOutDir
    \/ EnsureOutDirRaises
    \/ TaskNotFound
    \/ ParseTask
    \/ ParseTaskRaises
    \/ RunBackstop
    \/ GlobEmpty
    \/ GlobFiles
    \/ ReadReportFails
    \/ ReadReport
    \/ ReadReportRaises
    \/ AggregateItem
    \/ WriteSummary
    \/ MainWriteSummary
    \/ WritePacket

Spec == Init /\ [][Next]_vars

\* ============================================================= properties
\* What the report directory holds, read off the directory itself.

\* The JSON files of the directory in ascending order of their names.
AscendingNames(dir) ==
    CHOOSE s \in GlobOrders(dir) :
        \A i, j \in 1..Len(s) : i < j => LexLess(s[i], s[j])

RECURSIVE EntriesIn(_, _)
EntriesIn(dir, names) ==
    IF names = <<>> THEN <<>>
    ELSE LET f == dir.content[names[1]]
         IN (IF f.readable /\ f.testsKey = "list" THEN f.tests ELSE <<>>)
            \o EntriesIn(dir, Tail(names))

HasStatusFail(t) == t.status = "fail"

\* The failing test entries, files in ascending order, entries in file order.
Failures(dir) == SelectSeq(EntriesIn(dir, AscendingNames(dir)), HasStatusFail)

LabelOf(t) ==
    IF t.pairKey = "object" /\ t.pair.label # None /\ t.pair.label # ""
    THEN t.pair.label ELSE "unknown"

HasFileName(t) ==
    t.pairKey = "object" /\ t.pair.fileName # None /\ t.pair.fileName # ""

Labels(entries) == [i \in 1..Len(entries) |-> LabelOf(entries[i])]

\* The distinct elements of s in the order of their first occurrence.
RECURSIVE FirstOccurrences(_)
FirstOccurrences(s) ==
    IF s = <<>> THEN <<>>
    ELSE LET r == FirstOccurrences(SubSeq(s, 1, Len(s) - 1))
             x == s[Len(s)]
         IN IF \E i \in 1..Len(r) : r[i] = x THEN r ELSE Append(r, x)

FirstN(s, n) == SubSeq(s, 1, IF Len(s) < n THEN Len(s) ELSE n)

\* The non-empty file names of the entries labelled p, in order.
RECURSIVE NamesFor(_, _)
NamesFor(entries, p) ==
    IF entries = <<>> THEN <<>>
    ELSE (IF LabelOf(entries[1]) = p /\ HasFileName(entries[1])
          THEN <<entries[1].pair.fileName>> ELSE <<>>)
         \o NamesFor(Tail(entries), p)

CountFor(entries, p) ==
    Cardinality({i \in 1..Len(entries) : LabelOf(entries[i]) = p})

RECURSIVE SumCounts(_)
SumCounts(pages) ==
    IF pages = <<>> THEN 0 ELSE pages[1].count + SumCounts(Tail(pages))

\* The aggregate the specification describes for a sequence of failures.
AggregateOf(entries) ==
    LET ps == FirstOccurrences(Labels(entries))
    IN [pages |-> [k \in 1..Len(ps) |->
                     [page |-> ps[k],
                      count |-> CountFor(entries, ps[k]),
                      samples |-> FirstN(NamesFor(entries, ps[k]), 5)]],
        totalFailed |-> Len(entries)]

\* The directory without the files that cannot be read or parsed.
WithoutUnreadable(dir) ==
    [exists |-> dir.exists,
     content |-> [f \in {g \in DOMAIN dir.content : dir.content[g].readable}
                    |-> dir.content[f]]]

Returned == diff_summary # <<>>
\* collect_diffs was left by an exception.
Raised ==
    \E i \in 1..Len(stderr) : stderr[i] \in {"AttributeError", "TypeError"}
TaskExists == taskFile.kind # "missing"
\* run_backstop has returned: collect_diffs is running or has run.
BackstopDone == backstopCodes # <<>>

\* The failed items handled so far by the loop over failed_items.
Handled == SubSeq(failed_items, 1, ii - 1)

\* C1: after any prefix of the failed items, and in the returned aggregate,
\* every page summary holds at most 5 samples and its count is the number of
\* failed items seen so far with its label, sampled or not.
C1_BoundedSamplesTrueCount ==
    /\ \A k \in 1..Len(by_page) :
          /\ Len(by_page[k].samples) <= 5
          /\ by_page[k].count =
                Cardinality({j \in 1..(ii - 1) :
                                failed_items[j].label = by_page[k].page})
    /\ Returned =>
          \A k \in 1..Len(diff_summary[1].pages) :
             /\ Len(diff_summary[1].pages[k].samples) <= 5
             /\ diff_summary[1].pages[k].count =
                   CountFor(Failures(reportDir), diff_summary[1].pages[k].page)

C1_Witness ==
    /\ pc = "aggregate"
    /\ \E k \in 1..Len(by_page) :
          /\ Len(by_page[k].samples) = 5
          /\ by_page[k].count = 7

\* C2: in the returned aggregate totalFailed is the sum of the counts of the
\* page summaries.
C2_TotalIsSumOfCounts ==
    Returned => diff_summary[1].totalFailed = SumCounts(diff_summary[1].pages)

C2_Witness ==
    /\ Returned
    /\ Len(diff_summary[1].pages) = 2
    /\ diff_summary[1].totalFailed = 3

\* C3: the returned pages list each label of a failing entry once, in the
\* order of first occurrence with files in ascending name order and entries
\* in file order; while aggregating, the pages are the first occurrences of
\* the labels handled so far, so a seen label never moves or doubles.
C3_FirstOccurrenceOrder ==
    /\ [k \in 1..Len(by_page) |-> by_page[k].page]
          = FirstOccurrences([j \in 1..Len(Handled) |-> Handled[j].label])
    /\ Returned =>
          [k \in 1..Len(diff_summary[1].pages) |-> diff_summary[1].pages[k].page]
             = FirstOccurrences(Labels(Failures(reportDir)))

C3_Witness ==
    /\ Returned
    /\ files = <<<<1, 0>>, <<2>>>>
    /\ Len(diff_summary[1].pages) = 2
    /\ diff_summary[1].totalFailed = 3
    /\ diff_summary[1].pages[1].count = 2
    /\ Len(reportDir.content[<<2>>].tests) = 2
    /\ LabelOf(reportDir.content[<<2>>].tests[1]) = diff_summary[1].pages[2].page

\* C4: a report file that cannot be read adds no failed item and does not
\* stop the loop: the items collected so far are those of the readable files
\* visited so far, and the returned aggregate is the aggregate of the
\* directory without the unreadable files.
C4_UnreadableSkipped ==
    /\ pc = "read" =>
          [j \in 1..Len(failed_items) |-> failed_items[j].label]
             = Labels(SelectSeq(EntriesIn(reportDir, SubSeq(files, 1, fi - 1)),
                                HasStatusFail))
    /\ Returned =>
          diff_summary[1] = AggregateOf(Failures(WithoutUnreadable(reportDir)))

C4_Witness ==
    /\ Returned
    /\ Len(files) = 2
    /\ ~reportDir.content[files[1]].readable
    /\ diff_summary[1].totalFailed = 2

\* C5: in the returned aggregate the samples of a page are the first
\* min(5, k) non-empty file names of the failing entries with its label, in
\* processing order.
C5_FirstFiveNames ==
    Returned =>
       \A k \in 1..Len(diff_summary[1].pages) :
          diff_summary[1].pages[k].samples =
             FirstN(NamesFor(Failures(reportDir), diff_summary[1].pages[k].page), 5)

C5_Witness ==
    /\ Returned
    /\ \E k \in 1..Len(diff_summary[1].pages) :
          /\ diff_summary[1].pages[k].count = 7
          /\ Len(diff_summary[1].pages[k].samples) = 5
          /\ Len(NamesFor(Failures(reportDir), diff_summary[1].pages[k].page)) = 6
          /\ diff_summary[1].pages[k].samples[5] = "d6.png"

\* C6: collect_diffs never raises on a parsed report, and every failing
\* entry without a usable pair is counted on the page "unknown" and adds no
\* sample.
C6_NeverRaisesOnMissingFields ==
    /\ ~Raised
    /\ (BackstopDone /\ pc = "exit") =>
          /\ Returned
          /\ \A k \in 1..Len(diff_summary[1].pages) :
                diff_summary[1].pages[k].page = "unknown" =>
                   diff_summary[1].pages[k].count =
                      Cardinality({j \in 1..Len(Failures(reportDir)) :
                          LabelOf(Failures(reportDir)[j]) = "unknown"})

\* C7: when the directory is missing, holds no JSON file or holds no entry
\* with status "fail", collect_diffs does not raise and returns the empty
\* aggregate.
C7_NoFailureEmptyAggregate ==
    (BackstopDone /\ Failures(reportDir) = <<>>) =>
       /\ ~Raised
       /\ Returned => diff_summary[1] = [pages |-> <<>>, totalFailed |-> 0]
       /\ pc \in {"main_write", "packet", "exit"} => Returned

\* C8: once collect_diffs has returned, out/diff-summary.json holds the
\* aggregate it returned.
C8_FileHoldsReturned ==
    Returned => summaryFile = diff_summary

\* C9: with a missing task file the process ends with status 2, the
\* visual-diff tool is not run, nothing is aggregated and neither output
\* file is written.
C9_MissingTaskExits2 ==
    /\ [](~TaskExists =>
            /\ backstopCodes = <<>>
            /\ files = <<>> /\ failed_items = <<>> /\ ~Returned
            /\ pc \in {"mkdir", "validate", "exit"}
            /\ pc = "exit" => exitCode = <<2>>)
    /\ [][~TaskExists => UNCHANGED <<summaryFile, packetFile>>]_vars

\* C10: the reports are aggregated only after the visual-diff tool has
\* returned, and whatever status it returned the run aggregates the
\* reports, writes the packet and does not end with the status of the tool
\* as a failure.
C10_ToolStatusNotFatal ==
    /\ pc \in {"glob", "read", "aggregate", "main_write", "packet"} =>
          TaskExists /\ Len(backstopCodes) = 1
    /\ (BackstopDone /\ pc = "exit") =>
          /\ Len(backstopCodes) = 1
          /\ Returned
          /\ packetFile # <<>>
          /\ packetFile[1].diff = diff_summary[1]
          /\ exitCode = <<0>>

====
